---- MODULE Spec2Model ----
(***************************************************************************)
(* Content filters of the text-extraction pipeline (filters.py):           *)
(* duplicate detection on top of a frequency-counting LRU cache, the       *)
(* language gate and the helpers they use.                                 *)
(*                                                                         *)
(* Texts are sequences of one-character strings.  The cache LRU_TEST is a  *)
(* sequence of entries [key, val] kept in recency order: the head is the   *)
(* least recently used entry, the last element the most recently used.    *)
(***************************************************************************)
EXTENDS Integers, Sequences, FiniteSets, TLC

\* ---------------------------------------------------------------- bounds
MaxCapacity == 2        \* largest LRU_SIZE explored
MaxCount == 4           \* calls stop once a stored count reaches this
MaxMinSize == 1         \* MIN_DUPLCHECK_SIZE ranges over 0..MaxMinSize
MaxMaxRepetitions == 2  \* MAX_REPETITIONS ranges over 0..MaxMaxRepetitions

\* value LRUCache.get returns for a key that is not in the cache
NOT_FOUND == -1

\* ------------------------------------------------------------------ texts
Whitespace == {" ", "\n", "\t"}

RECURSIVE Join(_)
\* ' '.join(fragments)
Join(frags) ==
    IF frags = <<>> THEN <<>>
    ELSE IF Len(frags) = 1 THEN frags[1]
    ELSE frags[1] \o <<" ">> \o Join(Tail(frags))

RECURSIVE LStrip(_)
LStrip(s) ==
    IF s # <<>> /\ s[1] \in Whitespace THEN LStrip(Tail(s)) ELSE s

RECURSIVE RStrip(_)
RStrip(s) ==
    IF s # <<>> /\ s[Len(s)] \in Whitespace
    THEN RStrip(SubSeq(s, 1, Len(s) - 1)) ELSE s

\* utils.trim: removes the leading and trailing whitespace
trim(s) == RStrip(LStrip(s))

\* the comparison key of an element: trim(' '.join(element.itertext()))
teststringOf(element) == trim(Join(element))

\* elements handed to duplicate_test, each the sequence of its text fragments
Elements ==
    { <<>>,
      << <<" ">> >>,
      << <<"a">> >>,
      << <<" ", "a">>, <<>> >>,
      << <<"a">>, <<"b">> >> }

\* the strings duplicate_test keys the cache by
Keys == { teststringOf(e) : e \in Elements }

\* the keys of direct calls on the cache
LRUKeys == Keys \cup { <<"b">> }

\* ------------------------------------------------------------- LRU cache
Entry(k, v) == [key |-> k, val |-> v]

Has(c, k) == \E i \in 1..Len(c) : c[i].key = k

KeysOf(c) == [i \in 1..Len(c) |-> c[i].key]

KeySet(c) == { c[i].key : i \in 1..Len(c) }

Without(c, k) == SelectSeq(c, LAMBDA e : e.key # k)

\* the stored count of k, NOT_FOUND when k is absent
CountOf(c, k) ==
    IF Has(c, k) THEN (CHOOSE e \in { c[i] : i \in 1..Len(c) } : e.key = k).val
    ELSE NOT_FOUND

\* LRUCache.get that reads without touching
LRUCache_get_no_touch(c, k) == c

\* LRUCache.get: the cache after the call (a hit moves k to the MRU end)
LRUCache_get(c, k) ==
    IF Has(c, k) THEN Append(Without(c, k), Entry(k, CountOf(c, k))) ELSE c

\* LRUCache.put evicting the most recently used entry
LRUCache_put_evict_mru(size, c, k, v) ==
    IF Has(c, k) THEN Append(Without(c, k), Entry(k, v))
    ELSE IF Len(c) >= size THEN Append(SubSeq(c, 1, Len(c) - 1), Entry(k, v))
    ELSE Append(c, Entry(k, v))

\* LRUCache.put evicting from a full cache before it looks the key up
LRUCache_put_evict_first(size, c, k, v) ==
    IF Len(c) >= size THEN Append(Without(Tail(c), k), Entry(k, v))
    ELSE Append(Without(c, k), Entry(k, v))

\* LRUCache.put: update and touch an existing key; otherwise evict the LRU
\* entry when the cache is full, then insert
LRUCache_put(size, c, k, v) ==
    IF Has(c, k) THEN Append(Without(c, k), Entry(k, v))
    ELSE IF Len(c) >= size THEN Append(Tail(c), Entry(k, v))
    ELSE Append(c, Entry(k, v))

\* put_in_cache with a first observation stored as 0
put_in_cache_from_zero(size, c, teststring) ==
    LET cacheval == CountOf(c, teststring)
        c1 == LRUCache_get(c, teststring)
    IN  IF cacheval # NOT_FOUND
        THEN LRUCache_put(size, c1, teststring, cacheval + 1)
        ELSE LRUCache_put(size, c1, teststring, 0)

\* put_in_cache making room in a full cache before it stores
put_in_cache_make_room(size, c, teststring) ==
    LET cacheval == CountOf(c, teststring)
        c1 == LRUCache_get(c, teststring)
        c2 == IF Len(c1) >= size THEN Tail(c1) ELSE c1
    IN  IF cacheval # NOT_FOUND
        THEN LRUCache_put(size, c2, teststring, cacheval + 1)
        ELSE LRUCache_put(size, c2, teststring, 1)

\* put_in_cache(teststring)
put_in_cache(size, c, teststring) ==
    LET cacheval == CountOf(c, teststring)
        c1 == LRUCache_get(c, teststring)
    IN  IF cacheval # NOT_FOUND
        THEN LRUCache_put(size, c1, teststring, cacheval + 1)
        ELSE LRUCache_put(size, c1, teststring, 1)

\* duplicate_test comparing with >= instead of >
duplicate_test_ge(size, c, element, min_size, max_repetitions) ==
    LET teststring == teststringOf(element)
        cacheval == CountOf(c, teststring)
        c1 == LRUCache_get(c, teststring)
    IN  IF Len(teststring) > min_size
        THEN IF cacheval >= max_repetitions
             THEN [ret |-> TRUE,
                   cache |-> LRUCache_put(size, c1, teststring, cacheval + 1)]
             ELSE [ret |-> FALSE, cache |-> put_in_cache(size, c1, teststring)]
        ELSE [ret |-> FALSE, cache |-> put_in_cache(size, c, teststring)]

\* duplicate_test without the length test
duplicate_test_any_length(size, c, element, min_size, max_repetitions) ==
    LET teststring == teststringOf(element)
        cacheval == CountOf(c, teststring)
        c1 == LRUCache_get(c, teststring)
    IN  IF cacheval > max_repetitions
        THEN [ret |-> TRUE,
              cache |-> LRUCache_put(size, c1, teststring, cacheval + 1)]
        ELSE [ret |-> FALSE, cache |-> put_in_cache(size, c1, teststring)]

\* duplicate_test returning 'repeat' without recording the observation
duplicate_test_no_count(size, c, element, min_size, max_repetitions) ==
    LET teststring == teststringOf(element)
        cacheval == CountOf(c, teststring)
        c1 == LRUCache_get(c, teststring)
    IN  IF Len(teststring) > min_size
        THEN IF cacheval > max_repetitions
             THEN [ret |-> TRUE, cache |-> c1]
             ELSE [ret |-> FALSE, cache |-> put_in_cache(size, c1, teststring)]
        ELSE [ret |-> FALSE, cache |-> put_in_cache(size, c, teststring)]

\* duplicate_test restarting the count of a text it classifies as a repeat
duplicate_test_restart(size, c, element, min_size, max_repetitions) ==
    LET teststring == teststringOf(element)
        cacheval == CountOf(c, teststring)
        c1 == LRUCache_get(c, teststring)
    IN  IF Len(teststring) > min_size
        THEN IF cacheval > max_repetitions
             THEN [ret |-> TRUE,
                   cache |-> LRUCache_put(size, c1, teststring, 1)]
             ELSE [ret |-> FALSE, cache |-> put_in_cache(size, c1, teststring)]
        ELSE [ret |-> FALSE, cache |-> put_in_cache(size, c, teststring)]

\* duplicate_test leaving the texts it does not compare out of the cache
duplicate_test_skip_short(size, c, element, min_size, max_repetitions) ==
    LET teststring == teststringOf(element)
        cacheval == CountOf(c, teststring)
        c1 == LRUCache_get(c, teststring)
    IN  IF Len(teststring) > min_size
        THEN IF cacheval > max_repetitions
             THEN [ret |-> TRUE,
                   cache |-> LRUCache_put(size, c1, teststring, cacheval + 1)]
             ELSE [ret |-> FALSE, cache |-> put_in_cache(size, c1, teststring)]
        ELSE [ret |-> FALSE, cache |-> c]

\* duplicate_test(element, config): the returned flag and the cache afterwards
duplicate_test(size, c, element, min_size, max_repetitions) ==
    LET teststring == teststringOf(element)
        cacheval == CountOf(c, teststring)
        c1 == LRUCache_get(c, teststring)
    IN  IF Len(teststring) > min_size
        THEN IF cacheval > max_repetitions
             THEN [ret |-> TRUE,
                   cache |-> LRUCache_put(size, c1, teststring, cacheval + 1)]
             ELSE [ret |-> FALSE, cache |-> put_in_cache(size, c1, teststring)]
        ELSE [ret |-> FALSE, cache |-> put_in_cache(size, c, teststring)]

\* ----------------------------------------------------------- language gate
\* language codes; "None" stands for an unset target_language
Languages == {"en", "de", "un"}

Targets == {"None", "en", "de"}

GateTexts == { <<>>, <<"a">>, <<"b">>, <<"a", "b">> }

\* language_filter rejecting when the identifier is missing
language_filter_fail_closed(temp_text, temp_comments, target_language, language, langid) ==
    LET langtest == IF Len(temp_comments) > Len(temp_text)
                    THEN temp_comments ELSE temp_text
    IN  IF target_language # "None"
        THEN IF langid = TRUE
             THEN IF language # target_language
                  THEN [ret |-> TRUE, identified |-> <<langtest>>, language |-> language,
                        warnings |-> <<"wrong language">>]
                  ELSE [ret |-> FALSE, identified |-> <<langtest>>, language |-> language,
                        warnings |-> <<>>]
             ELSE [ret |-> TRUE, identified |-> <<>>, language |-> "",
                   warnings |-> <<"Detector not installed">>]
        ELSE [ret |-> FALSE, identified |-> <<>>, language |-> "",
              warnings |-> <<>>]

\* language_filter without the test for an unset target language
language_filter_no_sanity_check(temp_text, temp_comments, target_language, language, langid) ==
    LET langtest == IF Len(temp_comments) > Len(temp_text)
                    THEN temp_comments ELSE temp_text
    IN  IF langid = TRUE
        THEN IF language # target_language
             THEN [ret |-> TRUE, identified |-> <<langtest>>, language |-> language,
                   warnings |-> <<"wrong language">>]
             ELSE [ret |-> FALSE, identified |-> <<langtest>>, language |-> language,
                   warnings |-> <<>>]
        ELSE [ret |-> FALSE, identified |-> <<>>, language |-> "",
              warnings |-> <<"Detector not installed">>]

\* language_filter taking the comments as sample when the lengths are equal
language_filter_ge(temp_text, temp_comments, target_language, language, langid) ==
    LET langtest == IF Len(temp_comments) >= Len(temp_text)
                    THEN temp_comments ELSE temp_text
    IN  IF target_language # "None"
        THEN IF langid = TRUE
             THEN IF language # target_language
                  THEN [ret |-> TRUE, identified |-> <<langtest>>, language |-> language,
                        warnings |-> <<"wrong language">>]
                  ELSE [ret |-> FALSE, identified |-> <<langtest>>, language |-> language,
                        warnings |-> <<>>]
             ELSE [ret |-> FALSE, identified |-> <<>>, language |-> "",
                   warnings |-> <<"Detector not installed">>]
        ELSE [ret |-> FALSE, identified |-> <<>>, language |-> "",
              warnings |-> <<>>]

\* language_filter(temp_text, temp_comments, target_language, docmeta) with
\* the module's LANGID_FLAG; language is what cld3.get_language answers if it
\* is asked.  docmeta only feeds the log line and is left out.
\* ret: the returned flag; identified: the samples handed to the identifier;
\* language: the code it answered (""; it was not asked); warnings: the
\* LOGGER.warning records written
language_filter(temp_text, temp_comments, target_language, language, langid) ==
    LET langtest == IF Len(temp_comments) > Len(temp_text)
                    THEN temp_comments ELSE temp_text
    IN  IF target_language # "None"
        THEN IF langid = TRUE
             THEN IF language # target_language
                  THEN [ret |-> TRUE, identified |-> <<langtest>>, language |-> language,
                        warnings |-> <<"wrong language">>]
                  ELSE [ret |-> FALSE, identified |-> <<langtest>>, language |-> language,
                        warnings |-> <<>>]
             ELSE [ret |-> FALSE, identified |-> <<>>, language |-> "",
                   warnings |-> <<"Detector not installed">>]
        ELSE [ret |-> FALSE, identified |-> <<>>, language |-> "",
              warnings |-> <<>>]

\* ------------------------------------------------------ structural filter
\* the value of an element's text or tail that is not there
None == <<"<None>">>

UpperCase ==
    <<"A", "B", "C", "D", "E", "F", "G", "H", "I", "J", "K", "L", "M",
      "N", "O", "P", "Q", "R", "S", "T", "U", "V", "W", "X", "Y", "Z">>

LowerCase ==
    <<"a", "b", "c", "d", "e", "f", "g", "h", "i", "j", "k", "l", "m",
      "n", "o", "p", "q", "r", "s", "t", "u", "v", "w", "x", "y", "z">>

Digits == {"0", "1", "2", "3", "4", "5", "6", "7", "8", "9"}

\* the characters \w matches
WordChars ==
    { UpperCase[i] : i \in 1..26 } \cup { LowerCase[i] : i \in 1..26 }
        \cup Digits \cup {"_"}

\* the characters str.isspace accepts; "<DEL>", the control character U+007F,
\* is none of them
SpaceChars == Whitespace \cup {"\r", "\f"}

LowerChar(c) ==
    IF \E i \in 1..26 : UpperCase[i] = c
    THEN LowerCase[CHOOSE i \in 1..26 : UpperCase[i] = c] ELSE c

\* str.lower
lower(s) == [i \in 1..Len(s) |-> LowerChar(s[i])]

\* str.isspace
isspace(s) == s # <<>> /\ \A i \in 1..Len(s) : s[i] \in SpaceChars

RECURSIVE splitlines(_)
\* str.splitlines: the lines of s without their line breaks
splitlines(s) ==
    IF s = <<>> THEN <<>>
    ELSE IF \E i \in 1..Len(s) : s[i] \in {"\n", "\r"}
    THEN LET i == CHOOSE j \in 1..Len(s) :
                     /\ s[j] \in {"\n", "\r"}
                     /\ \A h \in 1..(j - 1) : s[h] \notin {"\n", "\r"}
             n == IF s[i] = "\r" /\ i < Len(s) /\ s[i + 1] = "\n"
                  THEN i + 1 ELSE i
         IN  <<SubSeq(s, 1, i - 1)>> \o splitlines(SubSeq(s, n + 1, Len(s)))
    ELSE <<s>>

\* the alternatives of RE_FILTER, lowercased; E-?Mail stands for two of them
RE_FILTER_labels ==
    { <<"d", "r", "u", "c", "k", "e", "n">>,
      <<"e", "m", "a", "i", "l">>,
      <<"e", "-", "m", "a", "i", "l">>,
      <<"f", "a", "c", "e", "b", "o", "o", "k">>,
      <<"f", "l", "i", "p", "b", "o", "a", "r", "d">>,
      <<"g", "o", "o", "g", "l", "e">>,
      <<"i", "n", "s", "t", "a", "g", "r", "a", "m">>,
      <<"l", "i", "n", "k", "e", "d", "i", "n">>,
      <<"m", "a", "i", "l">>,
      <<"p", "d", "f">>,
      <<"p", "i", "n", "t", "e", "r", "e", "s", "t">>,
      <<"p", "o", "c", "k", "e", "t">>,
      <<"p", "r", "i", "n", "t">>,
      <<"r", "e", "d", "d", "i", "t">>,
      <<"t", "w", "i", "t", "t", "e", "r">>,
      <<"w", "h", "a", "t", "s", "a", "p", "p">>,
      <<"x", "i", "n", "g">> }

\* RE_FILTER.search(line): the pattern tried from every position of the line
RE_FILTER_search(line) ==
    \E i \in 0..Len(line) :
        lower(SubSeq(line, i + 1, Len(line))) \in RE_FILTER_labels

\* RE_FILTER.match(line): \W* from the start of the line, then a label,
\* letter case ignored, then the end of the line
RE_FILTER_match(line) ==
    \E i \in 0..Len(line) :
        /\ \A j \in 1..i : line[j] \notin WordChars
        /\ lower(SubSeq(line, i + 1, Len(line))) \in RE_FILTER_labels

\* text_chars_test(string)
text_chars_test(string) ==
    IF string = None \/ Len(string) = 0 \/ isspace(string) THEN FALSE ELSE TRUE

\* textfilter falling back on the tail when the text is unusable
textfilter_fallback(element) ==
    LET testtext == IF text_chars_test(element.text) = FALSE
                       /\ element.tail # None
                    THEN element.tail ELSE element.text
        lines == IF testtext = None THEN <<>> ELSE splitlines(testtext)
        hits == { i \in 1..Len(lines) : RE_FILTER_match(lines[i]) }
        last == IF hits = {} THEN Len(lines)
                ELSE CHOOSE i \in hits : \A h \in hits : i <= h
    IN  IF text_chars_test(testtext) = FALSE
        THEN [testtext |-> testtext, usable |-> FALSE, matched |-> <<>>,
              ret |-> TRUE]
        ELSE [testtext |-> testtext, usable |-> TRUE,
              matched |-> SubSeq(lines, 1, last), ret |-> hits # {}]

\* textfilter(element).  testtext: the text tested; usable: what
\* text_chars_test answered; matched: the lines handed to RE_FILTER.match;
\* ret: the returned flag
textfilter(element) ==
    LET testtext == IF element.text = None /\ element.tail # None
                    THEN element.tail ELSE element.text
        lines == IF testtext = None THEN <<>> ELSE splitlines(testtext)
        hits == { i \in 1..Len(lines) : RE_FILTER_match(lines[i]) }
        last == IF hits = {} THEN Len(lines)
                ELSE CHOOSE i \in hits : \A h \in hits : i <= h
    IN  IF text_chars_test(testtext) = FALSE
        THEN [testtext |-> testtext, usable |-> FALSE, matched |-> <<>>,
              ret |-> TRUE]
        ELSE [testtext |-> testtext, usable |-> TRUE,
              matched |-> SubSeq(lines, 1, last), ret |-> hits # {}]

TextBlank == <<" ", "\t", "\n">>
TextDel == <<"<DEL>">>
TextShare == <<"S", "h", "a", "r", "e", " ", "o", "n", " ", "F", "a",
               "c", "e", "b", "o", "o", "k">>
TextLabel == <<"F", "a", "c", "e", "b", "o", "o", "k">>
TextDashLabel == <<"-", " ", "f", "a", "c", "e", "b", "o", "o", "k">>
TextSecondLine == <<"o", "k", "\n", "E", "-", "M", "a", "i", "l">>
TextLabelFirst == <<"P", "D", "F", " ", "n", "o", "w">>
TextPlain == <<"o", "k">>

\* the texts and tails of the elements handed to textfilter
BlockTexts ==
    { None, <<>>, TextBlank, TextDel, TextShare, TextLabel, TextDashLabel,
      TextSecondLine, TextLabelFirst, TextPlain }

\* ------------------------------------------------------------ fingerprint
RECURSIVE findall_w5(_)
\* re.findall(r'\w{5,}', s): scanning from the left, at each position the
\* longest run of at least 5 word characters
findall_w5(s) ==
    IF Len(s) < 5 THEN <<>>
    ELSE IF \A i \in 1..5 : s[i] \in WordChars
    THEN LET n == CHOOSE j \in 5..Len(s) :
                     /\ \A i \in 1..j : s[i] \in WordChars
                     /\ j < Len(s) => s[j + 1] \notin WordChars
         IN  <<SubSeq(s, 1, n)>> \o findall_w5(SubSeq(s, n + 1, Len(s)))
    ELSE findall_w5(Tail(s))

\* base64.b64encode(hashlib.sha1(bytes).digest()).decode(), kept as a term:
\* the digest is a function of the bytes and nothing is assumed to collide
sha1_b64(bytes) == <<"sha1+b64", bytes>>

\* content_fingerprint without the lowercasing
content_fingerprint_cased(string) ==
    LET teststring == Join(findall_w5(string))
    IN  [teststring |-> teststring, fingerprint |-> sha1_b64(teststring)]

\* content_fingerprint(string).  teststring: what is hashed; fingerprint:
\* the returned string
content_fingerprint(string) ==
    LET teststring == Join(findall_w5(lower(string)))
    IN  [teststring |-> teststring, fingerprint |-> sha1_b64(teststring)]

PrintHello == <<"H", "e", "l", "l", "o", " ", "W", "o", "r", "l",
                "d">>
PrintLower == <<"h", "e", "l", "l", "o", " ", "w", "o", "r", "l",
                "d">>
PrintSeparators == <<"H", "e", "l", "l", "o", ",", " ", " ", "W",
                     "o", "r", "l", "d", "!">>
PrintShortRun == <<"H", "e", "l", "l", "o", " ", "t", "o", " ", "W",
                   "o", "r", "l", "d">>
PrintOtherWord == <<"H", "e", "l", "l", "o", " ", "W", "o", "r", "d",
                    "s">>
PrintSwapped == <<"W", "o", "r", "l", "d", " ", "H", "e", "l", "l",
                  "o">>
PrintTooShort == <<"H", "e", "l", "l", " ", "W", "o", "r", "l", "d">>
PrintUnderscore == <<"H", "e", "l", "l", "o", "_", "W", "o", "r",
                     "l", "d">>

PrintThreeWords == <<"H", "e", "l", "l", "o", " ", "W", "o", "r", "l", "d",
                     " ", "a", "g", "a", "i", "n">>

\* the strings handed to content_fingerprint
PrintTexts ==
    { <<>>, PrintHello, PrintLower, PrintSeparators, PrintShortRun,
      PrintOtherWord, PrintSwapped, PrintTooShort, PrintUnderscore,
      PrintThreeWords }

\* ------------------------------------------------------------------ state
VARIABLES
    LRU_SIZE,    \* capacity the cache was constructed with
    LRU_TEST,    \* the module-level cache
    LANGID_FLAG, \* whether the language identifier could be imported
    config,      \* the DEFAULT section of the configuration the calls read
    call,        \* the last call made on the cache and what it returned
    gate,        \* the last language_filter call and what it did
    block,       \* the last textfilter or text_chars_test call and its result
    finger,      \* the last two content_fingerprint calls and their results
    race,        \* the duplicate_test calls under way in each thread
    touched,     \* history: the distinct keys touched so far, oldest touch first
    scen,        \* history: how much of the recency scenario the last calls match
    flag         \* history: per text, what became of a 'repeat' verdict

vars ==
    <<LRU_SIZE, LRU_TEST, LANGID_FLAG, config, call, gate, block, finger,
      race, touched, scen, flag>>

\* op: the function called; key: its string; val: the count the call read
\* (NOT_FOUND: none) or, for put, the count it wrote; ret: the flag
\* duplicate_test returned; hit: the key was in the cache before the call;
\* evicted: the keys the call removed; nth: the call is the nth duplicate_test
\* in a row on a key that was absent at the first of them (0: it is not);
\* was: flag[key] before the call
NoCall ==
    [op |-> "none", key |-> <<>>, val |-> 0, ret |-> FALSE, hit |-> FALSE,
     evicted |-> {}, nth |-> 0, was |-> "no"]

NoGate ==
    [temp_text |-> <<>>, temp_comments |-> <<>>, target_language |-> "None",
     identified |-> <<>>, language |-> "", ret |-> FALSE, warnings |-> <<>>]

NoBlock ==
    [text |-> None, tail |-> None, testtext |-> None, usable |-> FALSE,
     matched |-> <<>>, ret |-> FALSE]

NoFinger ==
    [string |-> <<>>, teststring |-> <<>>, fingerprint |-> <<>>,
     before |-> [string |-> <<>>, teststring |-> <<>>, fingerprint |-> <<>>]]

\* the threads of the host pipeline that share LRU_TEST
Threads == {"t1", "t2"}

\* the elements the threads test
RaceElements == { << <<"a">> >>, << <<"a">>, <<"b">> >> }

RaceKeys == { teststringOf(e) : e \in RaceElements }

\* no call under way.  locking: the host serialises the calls; holder: the
\* thread inside a call when it does; pc: the next cache access of each
\* thread's call; calls[k]: the calls on k completed since k was last
\* absent; begun[k]: the calls on k ever begun
NoRace ==
    [locking |-> FALSE, holder |-> "",
     pc |-> [t \in Threads |-> "idle"],
     key |-> [t \in Threads |-> <<>>],
     cacheval |-> [t \in Threads |-> NOT_FOUND],
     ret |-> [t \in Threads |-> FALSE],
     calls |-> [k \in RaceKeys |-> 0],
     begun |-> [k \in RaceKeys |-> 0]]

Configs ==
    [MIN_DUPLCHECK_SIZE : 0..MaxMinSize, MAX_REPETITIONS : 0..MaxMaxRepetitions]

\* nothing cached, nothing called
Fresh ==
    /\ LRU_TEST = <<>>
    /\ call = NoCall
    /\ gate = NoGate
    /\ block = NoBlock
    /\ finger = NoFinger
    /\ touched = <<>>
    /\ scen = 0
    /\ flag = [k \in LRUKeys |-> "no"]

\* the state once the module is imported: an empty cache of LRU_SIZE entries
Imported ==
    /\ LRU_SIZE \in 1..MaxCapacity
    /\ Fresh

\* The cache operations never read LANGID_FLAG.
Init ==
    /\ Imported
    /\ race = NoRace
    /\ LANGID_FLAG = TRUE
    /\ config \in Configs

\* ------------------------------------------------------------- operations
\* LRU_TEST.get(key)
Get(k) ==
    /\ LRU_TEST' = LRUCache_get(LRU_TEST, k)
    /\ call' = [NoCall EXCEPT !.op = "get", !.key = k,
                              !.val = CountOf(LRU_TEST, k),
                              !.hit = Has(LRU_TEST, k),
                              !.evicted = KeySet(LRU_TEST) \ KeySet(LRU_TEST')]
    /\ UNCHANGED <<LRU_SIZE, LANGID_FLAG, config, gate, block, finger, race>>

\* LRU_TEST.put(key, value)
Put(k, v) ==
    /\ LRU_TEST' = LRUCache_put(LRU_SIZE, LRU_TEST, k, v)
    /\ call' = [NoCall EXCEPT !.op = "put", !.key = k, !.val = v,
                              !.hit = Has(LRU_TEST, k),
                              !.evicted = KeySet(LRU_TEST) \ KeySet(LRU_TEST')]
    /\ UNCHANGED <<LRU_SIZE, LANGID_FLAG, config, gate, block, finger, race>>

\* put_in_cache(teststring)
PutInCache(k) ==
    /\ CountOf(LRU_TEST, k) < MaxCount
    /\ LRU_TEST' = put_in_cache(LRU_SIZE, LRU_TEST, k)
    /\ call' = [NoCall EXCEPT !.op = "put_in_cache", !.key = k,
                              !.val = CountOf(LRU_TEST, k),
                              !.hit = Has(LRU_TEST, k),
                              !.evicted = KeySet(LRU_TEST) \ KeySet(LRU_TEST')]
    /\ UNCHANGED <<LRU_SIZE, LANGID_FLAG, config, gate, block, finger, race>>

\* duplicate_test(element, config)
DuplicateTest(element) ==
    LET k == teststringOf(element)
        r == duplicate_test(LRU_SIZE, LRU_TEST, element,
                            config.MIN_DUPLCHECK_SIZE, config.MAX_REPETITIONS)
    IN  /\ CountOf(LRU_TEST, k) < MaxCount
        /\ LRU_TEST' = r.cache
        /\ call' = [NoCall EXCEPT
                      !.op = "duplicate_test", !.key = k, !.ret = r.ret,
                      !.val = CountOf(LRU_TEST, k),
                      !.hit = Has(LRU_TEST, k),
                      !.evicted = KeySet(LRU_TEST) \ KeySet(r.cache),
                      !.nth = IF ~Has(LRU_TEST, k) THEN 1
                              ELSE IF /\ call.op = "duplicate_test"
                                      /\ call.key = k
                                      /\ call.nth > 0
                                   THEN call.nth + 1
                                   ELSE 0,
                      !.was = flag[k]]
        /\ UNCHANGED <<LRU_SIZE, LANGID_FLAG, config, gate, block, finger, race>>

\* ------------------------------------------------------- the whole cache API
Idle == UNCHANGED <<touched, scen, flag>>

CallGet == \E k \in Keys : Get(k) /\ Idle

CallPut == \E k \in Keys, v \in 1..MaxCount : Put(k, v) /\ Idle

CallPutInCache == \E k \in Keys : PutInCache(k) /\ Idle

CallDuplicateTest == \E e \in Elements : DuplicateTest(e) /\ Idle

Next == CallGet \/ CallPut \/ CallPutInCache \/ CallDuplicateTest

Spec == Init /\ [][Next]_vars

\* --------------------------------------------- the LRU cache on its own
\* move k to the most recent end of a list of distinct keys
Touch(t, k) == Append(SelectSeq(t, LAMBDA x : x # k), k)

KeyA == <<"a">>
KeyB == <<"b">>
KeyC == <<"a", " ", "b">>
KeyD == <<>>

\* A, B, C inserted in order, A read again, C touched, then D inserted
Scenario ==
    << <<"put", KeyA>>, <<"put", KeyB>>, <<"put", KeyC>>,
       <<"get", KeyA>>, <<"get", KeyC>>, <<"put", KeyD>> >>

\* the length of the longest prefix of Scenario the calls so far end with
Advance(n, op, k) ==
    IF n < Len(Scenario) /\ Scenario[n + 1] = <<op, k>> THEN n + 1
    ELSE IF Scenario[1] = <<op, k>> THEN 1
    ELSE 0

LRUGet ==
    \E k \in LRUKeys :
        /\ Get(k)
        /\ touched' = IF Has(LRU_TEST, k) THEN Touch(touched, k) ELSE touched
        /\ scen' = Advance(scen, "get", k)
        /\ UNCHANGED flag

LRUPut ==
    \E k \in LRUKeys, v \in 1..MaxCount :
        /\ Put(k, v)
        /\ touched' = Touch(touched, k)
        /\ scen' = Advance(scen, "put", k)
        /\ UNCHANGED flag

NextLRU == LRUGet \/ LRUPut

\* get and put never read the configuration
InitLRU ==
    /\ Imported
    /\ race = NoRace
    /\ LANGID_FLAG = TRUE
    /\ config = [MIN_DUPLCHECK_SIZE |-> 0, MAX_REPETITIONS |-> 0]

SpecLRU == InitLRU /\ [][NextLRU]_vars

\* ------------------------------------------- the duplicate detector alone
\* flag[x] after a duplicate_test call on k that returned ret and left cache c:
\* "fresh" once a call on x returned 'repeat', "aged" once another text was
\* tested after that, "lost" once x was evicted after that
FlagAfter(f, k, ret, c) ==
    [x \in DOMAIN f |->
        IF x = k THEN (IF ret THEN "fresh" ELSE f[x])
        ELSE IF f[x] \in {"fresh", "aged"}
             THEN (IF Has(c, x) THEN "aged" ELSE "lost")
             ELSE f[x]]

Detect ==
    \E e \in Elements :
        /\ DuplicateTest(e)
        /\ flag' = FlagAfter(flag, teststringOf(e), call'.ret, LRU_TEST')
        /\ UNCHANGED <<touched, scen>>

NextDetector == Detect

SpecDetector == Init /\ [][NextDetector]_vars

\* ------------------------------------------------- the language gate alone
\* language_filter(temp_text, temp_comments, target_language, docmeta), the
\* identifier answering language for the sample
LanguageFilterOf(temp_text, temp_comments, target_language, language) ==
    LET r == language_filter(temp_text, temp_comments, target_language,
                             language, LANGID_FLAG)
    IN  /\ gate' = [temp_text |-> temp_text,
                    temp_comments |-> temp_comments,
                    target_language |-> target_language,
                    identified |-> r.identified,
                    language |-> r.language, ret |-> r.ret,
                    warnings |-> r.warnings]
        /\ call' = [NoCall EXCEPT !.op = "language_filter"]
        /\ UNCHANGED <<LRU_SIZE, LRU_TEST, LANGID_FLAG, config, block,
                       finger, touched, scen, flag, race>>

LanguageFilter ==
    \E temp_text \in GateTexts, temp_comments \in GateTexts,
       target_language \in Targets, language \in Languages :
        LanguageFilterOf(temp_text, temp_comments, target_language, language)

NextLang == LanguageFilter

\* the import either finds the identifier or does not
InitLang ==
    /\ Imported
    /\ race = NoRace
    /\ LANGID_FLAG \in BOOLEAN
    /\ config = [MIN_DUPLCHECK_SIZE |-> 0, MAX_REPETITIONS |-> 0]

SpecLang == InitLang /\ [][NextLang]_vars

\* --------------------------------------------- the structural filter alone
\* textfilter(element)
TextFilterOf(text, tail) ==
    LET r == textfilter([text |-> text, tail |-> tail])
    IN  /\ block' = [text |-> text, tail |-> tail,
                     testtext |-> r.testtext, usable |-> r.usable,
                     matched |-> r.matched, ret |-> r.ret]
        /\ call' = [NoCall EXCEPT !.op = "textfilter"]
        /\ UNCHANGED <<LRU_SIZE, LRU_TEST, LANGID_FLAG, config, gate,
                       finger, touched, scen, flag, race>>

TextFilter == \E text \in BlockTexts, tail \in BlockTexts : TextFilterOf(text, tail)

\* text_chars_test(string)
TextCharsTestOf(string) ==
    /\ block' = [NoBlock EXCEPT !.testtext = string,
                                !.usable = text_chars_test(string),
                                !.ret = text_chars_test(string)]
    /\ call' = [NoCall EXCEPT !.op = "text_chars_test"]
    /\ UNCHANGED <<LRU_SIZE, LRU_TEST, LANGID_FLAG, config, gate,
                   finger, touched, scen, flag, race>>

TextCharsTest == \E string \in BlockTexts : TextCharsTestOf(string)

NextFilter == TextFilter \/ TextCharsTest

SpecFilter == InitLRU /\ [][NextFilter]_vars

\* ------------------------------------------------- the fingerprinter alone
\* content_fingerprint keeping count of what it hashed in LRU_TEST
ContentFingerprintOf_counted(string) ==
    LET r == content_fingerprint(string)
    IN  /\ finger' = [string |-> string, teststring |-> r.teststring,
                      fingerprint |-> r.fingerprint,
                      before |-> [string |-> finger.string,
                                  teststring |-> finger.teststring,
                                  fingerprint |-> finger.fingerprint]]
        /\ call' = [NoCall EXCEPT !.op = "content_fingerprint"]
        /\ LRU_TEST' = put_in_cache(LRU_SIZE, LRU_TEST, r.teststring)
        /\ UNCHANGED <<LRU_SIZE, LANGID_FLAG, config, gate,
                       block, touched, scen, flag, race>>

\* content_fingerprint(string)
ContentFingerprintOf(string) ==
    LET r == content_fingerprint(string)
    IN  /\ finger' = [string |-> string, teststring |-> r.teststring,
                      fingerprint |-> r.fingerprint,
                      before |-> [string |-> finger.string,
                                  teststring |-> finger.teststring,
                                  fingerprint |-> finger.fingerprint]]
        /\ call' = [NoCall EXCEPT !.op = "content_fingerprint"]
        /\ UNCHANGED <<LRU_SIZE, LRU_TEST, LANGID_FLAG, config, gate,
                       block, touched, scen, flag, race>>

ContentFingerprint == \E string \in PrintTexts : ContentFingerprintOf(string)

NextPrint == ContentFingerprint

SpecPrint == InitLRU /\ [][NextPrint]_vars

\* ---------------------------------------- a block on its way through all
\* the structural filter, the detector, the fingerprinter and the language
\* gate called in any order on one cache
BlockTextFilter == TextFilterOf(TextLabel, None)

BlockTextCharsTest == TextCharsTestOf(TextPlain)

BlockDuplicateTest == \E e \in Elements : DuplicateTest(e) /\ Idle

BlockContentFingerprint == ContentFingerprintOf(PrintHello)

BlockLanguageFilter == LanguageFilterOf(<<"a">>, <<>>, "en", "de")

NextBlock ==
    \/ BlockTextFilter
    \/ BlockTextCharsTest
    \/ BlockDuplicateTest
    \/ BlockContentFingerprint
    \/ BlockLanguageFilter

\* one configuration: "a" is too short to be compared, "a b" is not
InitBlock ==
    /\ Imported
    /\ race = NoRace
    /\ LANGID_FLAG = TRUE
    /\ config = [MIN_DUPLCHECK_SIZE |-> 1, MAX_REPETITIONS |-> 1]

SpecBlock == InitBlock /\ [][NextBlock]_vars

\* ------------------------------------- duplicate_test in several threads
\* put_in_cache storing the count it read
put_in_cache_count_same(cacheval) == IF cacheval # NOT_FOUND THEN cacheval ELSE 1

\* the count put_in_cache stores after reading cacheval
put_in_cache_count(cacheval) == IF cacheval # NOT_FOUND THEN cacheval + 1 ELSE 1

\* race after thread t's call on k ended with flag ret, leaving cache c
Returned(t, k, ret, c) ==
    [race EXCEPT
        !.pc[t] = "idle", !.ret[t] = ret, !.holder = "",
        !.calls = [x \in RaceKeys |->
                      IF x = k THEN race.calls[x] + 1
                      ELSE IF Has(c, x) THEN race.calls[x] ELSE 0]]

\* thread t enters duplicate_test(element, config) and makes its first
\* cache access: the get of duplicate_test when the text is long enough,
\* the get of put_in_cache otherwise
RaceEnter(t, element) ==
    LET k == teststringOf(element)
        cacheval == CountOf(LRU_TEST, k)
        long == Len(k) > config.MIN_DUPLCHECK_SIZE
    IN  /\ race.pc[t] = "idle"
        /\ race.locking => race.holder = ""
        /\ race.begun[k] < MaxCount
        /\ LRU_TEST' = LRUCache_get(LRU_TEST, k)
        /\ race' = [race EXCEPT
                      !.holder = IF race.locking THEN t ELSE "",
                      !.key[t] = k, !.cacheval[t] = cacheval,
                      !.begun[k] = @ + 1,
                      !.pc[t] = IF ~long THEN "put_in_cache.put"
                                ELSE IF cacheval > config.MAX_REPETITIONS
                                THEN "duplicate_test.put"
                                ELSE "put_in_cache.get"]

\* LRU_TEST.put(teststring, cacheval + 1); return True
RacePut(t) ==
    /\ race.pc[t] = "duplicate_test.put"
    /\ LRU_TEST' = LRUCache_put(LRU_SIZE, LRU_TEST, race.key[t],
                                race.cacheval[t] + 1)
    /\ race' = Returned(t, race.key[t], TRUE, LRU_TEST')

\* put_in_cache: cacheval = LRU_TEST.get(teststring)
RaceCacheGet(t) ==
    /\ race.pc[t] = "put_in_cache.get"
    /\ LRU_TEST' = LRUCache_get(LRU_TEST, race.key[t])
    /\ race' = [race EXCEPT !.cacheval[t] = CountOf(LRU_TEST, race.key[t]),
                            !.pc[t] = "put_in_cache.put"]

\* put_in_cache: LRU_TEST.put(teststring, ...); return False
RaceCachePut(t) ==
    /\ race.pc[t] = "put_in_cache.put"
    /\ LRU_TEST' = LRUCache_put(LRU_SIZE, LRU_TEST, race.key[t],
                                put_in_cache_count(race.cacheval[t]))
    /\ race' = Returned(t, race.key[t], FALSE, LRU_TEST')

\* the threads run duplicate_test and nothing else
Apart ==
    UNCHANGED <<LRU_SIZE, LANGID_FLAG, config, call, gate, block, finger,
                touched, scen, flag>>

Enter == \E t \in Threads, e \in RaceElements : RaceEnter(t, e) /\ Apart

CheckedPut == \E t \in Threads : RacePut(t) /\ Apart

CacheGet == \E t \in Threads : RaceCacheGet(t) /\ Apart

CachePut == \E t \in Threads : RaceCachePut(t) /\ Apart

NextRace == Enter \/ CheckedPut \/ CacheGet \/ CachePut

\* the host either serialises the calls on the shared cache or does not
InitRace ==
    /\ Imported
    /\ LANGID_FLAG = TRUE
    /\ config \in Configs
    /\ \E locking \in BOOLEAN : race = [NoRace EXCEPT !.locking = locking]

SpecRace == InitRace /\ [][NextRace]_vars

\* ------------------------------------- the detector on a cache of three
\* more texts than the cache holds
WideElements == Elements \cup { << <<"b">> >> }

WideDuplicateTest == \E e \in WideElements : DuplicateTest(e) /\ Idle

NextWide == WideDuplicateTest

\* one configuration: "a" and "b" are too short to be compared, "a b" is not
InitWide ==
    /\ LRU_SIZE = MaxCapacity + 1
    /\ Fresh
    /\ race = NoRace
    /\ LANGID_FLAG = TRUE
    /\ config = [MIN_DUPLCHECK_SIZE |-> 1, MAX_REPETITIONS |-> 1]

SpecWide == InitWide /\ [][NextWide]_vars

\* ----------------------------------------------------------------- claims
Tested == call.op = "duplicate_test"

\* C1: a duplicate_test call on a text longer than min_size returns 'repeat'
\* exactly when the count stored before the call exceeds max_repetitions; the
\* k-th call in a row on a text that was absent at the first of them does so
\* exactly when k >= max_repetitions + 2.
ThresholdBoundary ==
    (Tested /\ Len(call.key) > config.MIN_DUPLCHECK_SIZE) =>
        /\ call.ret <=> (call.val > config.MAX_REPETITIONS)
        /\ (call.nth >= 1) =>
              (call.ret <=> (call.nth >= config.MAX_REPETITIONS + 2))

\* C1 witness: with max_repetitions = 2 the 4th call in a row returns 'repeat'
FourthCallRepeats ==
    /\ Tested
    /\ config.MAX_REPETITIONS = 2
    /\ Len(call.key) > config.MIN_DUPLCHECK_SIZE
    /\ call.nth = 4
    /\ call.ret = TRUE

\* C2: a duplicate_test call on a text no longer than min_size returns
\* 'not a repeat' whatever count is stored for the text.
MinSizeExemption ==
    (Tested /\ Len(call.key) <= config.MIN_DUPLCHECK_SIZE) => call.ret = FALSE

\* C2 witness: a non-empty text at min_size, already counted more often than
\* max_repetitions allows, is tested and passes
ShortTextOverThreshold ==
    /\ Tested
    /\ call.key # <<>>
    /\ Len(call.key) <= config.MIN_DUPLCHECK_SIZE
    /\ call.val > config.MAX_REPETITIONS
    /\ call.ret = FALSE

\* C3: every duplicate_test call leaves the stored count of the tested key at
\* the count stored before the call plus 1, or at 1 if the key was absent; a
\* call that repeats the text of the call before it does not lower the count.
OneObservationPerCall ==
    [][call'.op = "duplicate_test" =>
          /\ CountOf(LRU_TEST', call'.key) =
                 IF Has(LRU_TEST, call'.key)
                 THEN CountOf(LRU_TEST, call'.key) + 1 ELSE 1
          /\ (call.op = "duplicate_test" /\ call.key = call'.key) =>
                 CountOf(LRU_TEST', call'.key) > CountOf(LRU_TEST, call'.key)
         ]_vars

\* C3 witness: a call that classified its text as a repeat has counted it
RepeatCounted ==
    /\ Tested
    /\ call.ret = TRUE
    /\ CountOf(LRU_TEST, call.key) = call.val + 1

\* C4 (as claimed): once duplicate_test has returned 'repeat' for a text, every
\* later call on that text returns 'repeat'.
RepeatForEver == (Tested /\ call.was # "no") => call.ret = TRUE

\* C4 (amended): once duplicate_test has returned 'repeat' for a text, every
\* later call on that text returns 'repeat' as long as the text has not been
\* evicted from the cache in between.
RepeatWhileCached ==
    (Tested /\ call.was \in {"fresh", "aged"}) => call.ret = TRUE

\* C4 witness: a text classified as a repeat is classified so again after
\* other texts were tested in between
RepeatAfterOthers == Tested /\ call.was = "aged" /\ call.ret = TRUE

\* C5: the cache never holds more entries than its capacity and every stored
\* count is an integer >= 1.
CapacityInvariant ==
    /\ Len(LRU_TEST) <= LRU_SIZE
    /\ \A i \in 1..Len(LRU_TEST) : LRU_TEST[i].val \in Nat \ {0}

\* C5 witness: a duplicate_test call on a new text met a full cache
FullCacheEvicts ==
    /\ Tested
    /\ call.evicted # {}
    /\ Len(LRU_TEST) = LRU_SIZE
    /\ LRU_SIZE = MaxCapacity

\* the keys the C most recent touches went to
LastTouched == { touched[i] : i \in (Len(touched) - LRU_SIZE + 1)..Len(touched) }

\* C6: once more than LRU_SIZE distinct keys have been touched the cache holds
\* exactly LRU_SIZE entries, the most recently touched distinct keys; a put of
\* a new key into a full cache removes exactly the least recently used entry.
LRURetention ==
    /\ [](Len(touched) > LRU_SIZE =>
              /\ Len(LRU_TEST) = LRU_SIZE
              /\ KeySet(LRU_TEST) = LastTouched)
    /\ [][(call'.op = "put" /\ ~call'.hit /\ Len(LRU_TEST) = LRU_SIZE) =>
              /\ call'.evicted = {LRU_TEST[1].key}
              /\ Len(LRU_TEST') = LRU_SIZE]_vars

\* C6 witness: a put of a new key has evicted an entry of a cache of the
\* largest capacity
PutEvicted ==
    /\ call.op = "put"
    /\ ~call.hit
    /\ call.evicted # {}
    /\ LRU_SIZE = MaxCapacity
    /\ Len(touched) > LRU_SIZE

GetHit == call.op = "get" /\ call.hit

GetMissLeavesCache ==
    [][(call'.op = "get" /\ ~call'.hit) =>
          (call'.val = NOT_FOUND /\ LRU_TEST' = LRU_TEST)]_vars

ScenarioEvictsB ==
    (scen = Len(Scenario) /\ LRU_SIZE = 2) =>
        (call.evicted = {KeyB} /\ KeysOf(LRU_TEST) = <<KeyC, KeyD>>)

\* C7 (as claimed): a get that hits makes the key the most recently used entry
\* and so not the entry the next eviction removes; a get that misses returns
\* NOT_FOUND and changes nothing; in the scenario the put of D evicts B.
GetIsTouchOnHit ==
    /\ [](GetHit => /\ LRU_TEST[Len(LRU_TEST)] = Entry(call.key, call.val)
                    /\ LRU_TEST[1].key # call.key)
    /\ GetMissLeavesCache
    /\ []ScenarioEvictsB

\* C7 (amended): as claimed, but the key read is sure not to be the entry the
\* next eviction removes only when the cache holds another entry.
GetIsTouchOnHitAmongOthers ==
    /\ [](GetHit => /\ LRU_TEST[Len(LRU_TEST)] = Entry(call.key, call.val)
                    /\ (Len(LRU_TEST) >= 2) => LRU_TEST[1].key # call.key)
    /\ GetMissLeavesCache
    /\ []ScenarioEvictsB

\* C7 witness: the scenario has run on a cache of capacity 2
ScenarioDone == scen = Len(Scenario) /\ LRU_SIZE = 2

\* C8: a put on a key that is present writes its count, makes it the most
\* recently used entry and removes nothing, also from a full cache.
PutOnPresentKey ==
    [][(call'.op = "put" /\ call'.hit) =>
          /\ KeySet(LRU_TEST') = KeySet(LRU_TEST)
          /\ Len(LRU_TEST') = Len(LRU_TEST)
          /\ LRU_TEST'[Len(LRU_TEST')] = Entry(call'.key, call'.val)
          /\ call'.evicted = {}]_vars

\* C8 witness: a put has rewritten a key of a full cache that has evicted before
PutRewroteInFullCache ==
    /\ call.op = "put"
    /\ call.hit
    /\ Len(LRU_TEST) = LRU_SIZE
    /\ LRU_SIZE = MaxCapacity
    /\ Len(touched) > LRU_SIZE
    /\ LRU_TEST[1].val # call.val

Gated == call.op = "language_filter"

\* C9 (as claimed): without the identifier language_filter returns False and
\* writes exactly one warning per call, whatever target_language is.
FailOpenOneWarning ==
    (Gated /\ LANGID_FLAG = FALSE) =>
        (gate.ret = FALSE /\ Len(gate.warnings) = 1)

\* C9 (amended): without the identifier language_filter returns False, and
\* writes exactly one warning per call when target_language is set and none
\* when it is unset.
FailOpenWarnsWhenTargetSet ==
    (Gated /\ LANGID_FLAG = FALSE) =>
        /\ gate.ret = FALSE
        /\ Len(gate.warnings) = IF gate.target_language = "None" THEN 0 ELSE 1

\* C9 witness: a call with a target language and no identifier
WarnedWithoutIdentifier ==
    /\ Gated
    /\ LANGID_FLAG = FALSE
    /\ gate.target_language = "en"
    /\ gate.temp_text # <<>>
    /\ gate.warnings = <<"Detector not installed">>

\* C10: with target_language unset language_filter returns False and does not
\* invoke the identifier, whatever the texts and the identifier's availability.
UnsetTargetPasses ==
    (Gated /\ gate.target_language = "None") =>
        (gate.ret = FALSE /\ gate.identified = <<>>)

\* C10 witness: a call without target language while the identifier is there
PassedWithIdentifier ==
    /\ Gated
    /\ LANGID_FLAG = TRUE
    /\ gate.target_language = "None"
    /\ Len(gate.temp_comments) > Len(gate.temp_text)

\* C11: with a target language and the identifier at hand, language_filter
\* hands the identifier exactly one sample, the comments if they are longer
\* than the text and the text otherwise, and rejects exactly when the code
\* answered for that sample differs from target_language.
LongerSampleDecides ==
    (Gated /\ LANGID_FLAG = TRUE /\ gate.target_language # "None") =>
        /\ gate.identified =
              << IF Len(gate.temp_comments) > Len(gate.temp_text)
                 THEN gate.temp_comments ELSE gate.temp_text >>
        /\ gate.ret <=> (gate.language # gate.target_language)

\* C11 witness: text and comments of equal length and different content, the
\* text is the sample, its language is not the target and the call rejects
EqualLengthsTextRejected ==
    /\ Gated
    /\ LANGID_FLAG = TRUE
    /\ gate.target_language = "en"
    /\ gate.temp_text # <<>>
    /\ Len(gate.temp_comments) = Len(gate.temp_text)
    /\ gate.temp_comments # gate.temp_text
    /\ gate.identified = <<gate.temp_text>>
    /\ gate.language = "de"
    /\ gate.ret = TRUE

Filtered == call.op = "textfilter"

\* the non-whitespace control characters of the alphabet (U+007F)
ControlChars == {"<DEL>"}

RECURSIVE DropNonWord(_)
\* a line without its leading non-word characters
DropNonWord(line) ==
    IF line # <<>> /\ line[1] \notin WordChars
    THEN DropNonWord(Tail(line)) ELSE line

\* a line that ends with one of the labels, whatever precedes the label
EndsWithLabel(line) ==
    \E n \in 1..Len(line) :
        lower(SubSeq(line, Len(line) - n + 1, Len(line))) \in RE_FILTER_labels

\* a line that is nothing but non-word characters followed by one label
LabelOnly(line) == lower(DropNonWord(line)) \in RE_FILTER_labels

\* C12 as stated: a block with usable text is rejected as soon as one of its
\* lines ends with a share/print/social label, "Share on Facebook" included.
LabelAtLineEndRejects ==
    (Filtered /\ block.usable) =>
        /\ (\E i \in 1..Len(splitlines(block.testtext)) :
                EndsWithLabel(splitlines(block.testtext)[i])) => block.ret
        /\ block.testtext = TextShare => block.ret

\* C12 amended: a block with usable text is rejected exactly when one of its
\* lines is, from its first to its last character, a run of non-word
\* characters followed by one label (case-insensitively); a line with words
\* before the label, such as "Share on Facebook", does not reject the block.
LabelOnlyLineRejects ==
    (Filtered /\ block.usable) =>
        /\ block.ret <=> \E i \in 1..Len(splitlines(block.testtext)) :
                             LabelOnly(splitlines(block.testtext)[i])
        /\ block.testtext = TextShare => ~block.ret

\* C12 witness: "- facebook" as the only text, rejected
DashLabelRejected ==
    /\ Filtered
    /\ block.text = TextDashLabel
    /\ block.testtext = TextDashLabel
    /\ block.usable
    /\ block.ret

\* C13: a block whose effective text is None, empty or made only of
\* whitespace and control characters has no usable text and is filtered out
\* with no line handed to the label pattern.
NoUsableTextFilteredOut ==
    (/\ Filtered
     /\ \/ block.testtext = None
        \/ \A i \in 1..Len(block.testtext) :
               block.testtext[i] \in SpaceChars \cup ControlChars) =>
        /\ block.usable = FALSE
        /\ block.ret = TRUE
        /\ block.matched = <<>>

\* C17: textfilter tests the tail only when the text is None and the tail is
\* not, and the text otherwise; a block whose text is there but empty or all
\* whitespace is filtered out, whatever its tail.
TailOnlyWhenTextAbsent ==
    Filtered =>
        /\ block.testtext = IF block.text = None /\ block.tail # None
                            THEN block.tail ELSE block.text
        /\ (/\ block.text # None
            /\ \A i \in 1..Len(block.text) : block.text[i] \in SpaceChars) =>
               (block.ret /\ ~block.usable)

\* C17 witness: whitespace-only text with a usable tail, filtered out
BlankTextHidesUsableTail ==
    /\ Filtered
    /\ block.text = TextBlank
    /\ block.tail = TextPlain
    /\ text_chars_test(block.tail)
    /\ block.testtext = TextBlank
    /\ block.ret

Printed == call.op = "content_fingerprint"

RECURSIVE WordRuns(_)
\* the maximal runs of word characters of s, in order
WordRuns(s) ==
    IF s = <<>> THEN <<>>
    ELSE IF s[1] \notin WordChars THEN WordRuns(Tail(s))
    ELSE LET n == CHOOSE j \in 1..Len(s) :
                      /\ \A i \in 1..j : s[i] \in WordChars
                      /\ j < Len(s) => s[j + 1] \notin WordChars
         IN  <<SubSeq(s, 1, n)>> \o WordRuns(SubSeq(s, n + 1, Len(s)))

\* the qualifying words of s: its word runs of 5 characters or more,
\* lowercased
QualifyingWords(s) ==
    LET long == SelectSeq(WordRuns(s), LAMBDA w : Len(w) >= 5)
    IN  [i \in 1..Len(long) |-> lower(long[i])]

\* C14: what content_fingerprint hashes is the qualifying words of its
\* argument joined by single spaces and nothing else, so two calls whose
\* arguments have the same qualifying words (the same text, texts differing
\* in letter case, in shorter runs or in separators) return the same
\* fingerprint, and two calls whose qualifying words differ hash different
\* inputs.
FingerprintOfQualifyingWords ==
    Printed =>
        /\ finger.teststring = Join(QualifyingWords(finger.string))
        /\ finger.before.fingerprint # <<>> =>
              /\ finger.string = finger.before.string =>
                    finger.fingerprint = finger.before.fingerprint
              /\ lower(finger.string) = lower(finger.before.string) =>
                    finger.fingerprint = finger.before.fingerprint
              /\ QualifyingWords(finger.string)
                    = QualifyingWords(finger.before.string) =>
                    finger.fingerprint = finger.before.fingerprint
              /\ QualifyingWords(finger.string)
                    # QualifyingWords(finger.before.string) =>
                    finger.teststring # finger.before.teststring

\* C14 witness: "Hello,  World!" after "hello world", in another case and
\* with other separators: the same words hashed, the same fingerprint
SameWordsSameFingerprint ==
    /\ Printed
    /\ finger.before.string = PrintLower
    /\ finger.string = PrintSeparators
    /\ finger.teststring = <<"h", "e", "l", "l", "o", " ", "w", "o", "r", "l", "d">>
    /\ finger.fingerprint = finger.before.fingerprint

Settled == \A t \in Threads : race.pc[t] = "idle"

\* C15: when the host serialises the calls, every key in the cache holds as
\* its count the number of calls made on it since it was last absent (its
\* count before plus one per call); when it does not, the count of a key
\* that was never evicted is at most that number once all calls have
\* returned, and at least 1.
SerializedCallsAllCounted ==
    \A k \in RaceKeys :
        /\ race.locking =>
              IF Has(LRU_TEST, k) THEN CountOf(LRU_TEST, k) = race.calls[k]
              ELSE race.calls[k] = 0
        /\ (Settled /\ race.begun[k] > 0 /\ race.calls[k] = race.begun[k]) =>
              /\ Has(LRU_TEST, k)
              /\ CountOf(LRU_TEST, k) >= 1
              /\ CountOf(LRU_TEST, k) <= race.calls[k]

\* C15 witness: two calls on one key, interleaved without a lock, have both
\* returned; the key was never evicted and its count is 1, not 2
LostIncrement ==
    /\ race.locking = FALSE
    /\ Settled
    /\ \E k \in RaceKeys :
          /\ race.begun[k] = 2
          /\ race.calls[k] = 2
          /\ Has(LRU_TEST, k)
          /\ CountOf(LRU_TEST, k) = 1

Pure ==
    call.op \in {"textfilter", "text_chars_test", "language_filter",
                 "content_fingerprint"}

\* C16: a call of textfilter, text_chars_test, language_filter or
\* content_fingerprint leaves the cache as it was, entries, counts and
\* order, and what a duplicate_test call returns is decided by the cache,
\* the text and the thresholds alone.
FiltersLeaveCache ==
    [][/\ Pure' => (LRU_TEST' = LRU_TEST /\ LRU_SIZE' = LRU_SIZE)
       /\ Tested' =>
             (call'.ret <=>
                 /\ Len(call'.key) > config.MIN_DUPLCHECK_SIZE
                 /\ CountOf(LRU_TEST, call'.key) > config.MAX_REPETITIONS)]_vars

\* C16 witness: a filter has just run over a cache holding a text seen twice
FilterRanOverCountedText ==
    /\ Pure
    /\ block # NoBlock
    /\ gate # NoGate
    /\ finger # NoFinger
    /\ \E i \in 1..Len(LRU_TEST) : LRU_TEST[i].val = 2

\* C18: after a duplicate_test call, whatever it returned, the text tested
\* is in the cache, at the most recently used end.
TestedKeyMostRecent ==
    Tested =>
        /\ Has(LRU_TEST, call.key)
        /\ LRU_TEST[Len(LRU_TEST)].key = call.key
        /\ \A i \in 1..(Len(LRU_TEST) - 1) : LRU_TEST[i].key # call.key

\* C18 witness: a call that returned 'repeat' on a text cached with another
RepeatedKeyMostRecent ==
    /\ Tested
    /\ call.ret = TRUE
    /\ call.hit
    /\ Len(LRU_TEST) = 2
    /\ LRU_TEST[2].key = call.key

\* the place of key x in cache c
Place(c, x) == CHOOSE i \in 1..Len(c) : c[i].key = x

\* C19: a duplicate_test call on k leaves every other key that stays cached
\* with its count; it removes at most one other key, and only when k was
\* absent and the cache full, the key removed being then the least recently
\* used; the other keys that stay keep their order.
OtherKeysKept ==
    [][Tested' =>
         LET k == call'.key
             gone == KeySet(LRU_TEST) \ KeySet(LRU_TEST')
         IN  /\ \A x \in KeySet(LRU_TEST') \ {k} :
                   /\ Has(LRU_TEST, x)
                   /\ CountOf(LRU_TEST', x) = CountOf(LRU_TEST, x)
             /\ Cardinality(gone) <= 1
             /\ gone # {} =>
                   /\ ~Has(LRU_TEST, k)
                   /\ Len(LRU_TEST) = LRU_SIZE
                   /\ gone = {LRU_TEST[1].key}
             /\ \A x, y \in KeySet(LRU_TEST') \ {k} :
                   Place(LRU_TEST', x) < Place(LRU_TEST', y) =>
                       Place(LRU_TEST, x) < Place(LRU_TEST, y)]_vars

\* C19 witness: a call on a new text met a full cache of three and left two
\* of them behind it
EvictedOneOfThree ==
    /\ Tested
    /\ ~call.hit
    /\ call.evicted # {}
    /\ Len(LRU_TEST) = 3
    /\ LRU_TEST[1].val > 1

====
